---- MODULE Spec2Model ----
(***************************************************************************)
(* toggl-cli: one process invocation after another, as main.rs runs them.  *)
(*                                                                         *)
(* main.rs is modelled from the source.  The bodies of the orchestration   *)
(* commands (StopCommand, StartCommand, ...), of picker::get_picker, of    *)
(* V9ApiClient::from_credentials and of KeyringStorage live in modules     *)
(* that main.rs only declares (mod commands; mod picker; ...); they are    *)
(* modelled from the specification, sections 4.1 to 4.4 and 6.             *)
(*                                                                         *)
(* State that outlives a process: the Credential Store and the remote      *)
(* service (the running entry and the recent entries).  Everything else    *)
(* is reset when the next process starts.                                  *)
(***************************************************************************)
EXTENDS Integers, Sequences, FiniteSets, TLC

\* ---------------------------------------------------------------- bounds
\* how many recent time entries the remote service is modelled to keep
\* (also the largest `number` argument of `list`)
MaxEntries == 2

\* ---------------------------------------------------------------- domains
NoValue == "None"

\* api tokens: two the remote service accepts, one it rejects
Tokens == {"tokA", "tokB", "tokBad"}
ValidTokens == {"tokA", "tokB"}

\* --proxy: absent, or a url the http client cannot be built with
Proxies == {NoValue, "badproxy"}

\* --directory: absent, a path that does not exist, a regular file,
\* a directory, a directory the process may not enter
Directories == {NoValue, "missing", "file", "dir", "dir_denied"}

Descriptions == {NoValue, "d1"}
ProjectArgs == {NoValue, "p1"}

\* a time entry as the remote service keeps it; description is never absent.
\* Its billable flag, start and stop times are carried by the service and are
\* not part of the modelled state: no decision of the client reads them.
Entries == [description : {"", "d1"}, project : {NoValue, "p1"}]

\* exit status of a rust process whose main thread panicked
PanicExitCode == 101

VARIABLES
    pc,        \* position of the process: "shell", "main", "match", "ret", "exited"
    args,      \* CommandLineArguments of the running process
    store,     \* Credential Store content: NoValue (NotFound) or a token
    running,   \* remote state: TRUE = Running, FALSE = Idle
    entries,   \* remote recent entries, most recent first
    trace,     \* what this process did, in order
    executed,  \* the orchestration command that was run, and the picker it got
    result,    \* what execute_subcommand returned: "Pending", "Ok" or an error
    exitCode,  \* process exit status, -1 while running
    cwd,       \* working directory of the process
    store0,    \* Credential Store content when the process started
    running0,  \* remote state when the process started
    entries0   \* remote entries when the process started

vars == <<pc, args, store, running, entries, trace, executed, result,
          exitCode, cwd, store0, running0, entries0>>

\* ---------------------------------------------------------------- helpers
Count(tr, e) == Cardinality({i \in 1..Len(tr) : tr[i] = e})
Has(tr, e) == \E i \in 1..Len(tr) : tr[i] = e
Index(tr, e) == CHOOSE i \in 1..Len(tr) : tr[i] = e /\ \A j \in 1..(i-1) : tr[j] # e
Prefix(s, n) == IF Len(s) <= n THEN s ELSE SubSeq(s, 1, n)

\* the API Client operations of section 4.1
ReadCalls == {"get_running_entry", "list_time_entries", "list_projects", "authenticate"}
MutatingCalls == {"start_entry", "stop_entry"}
ApiCalls == ReadCalls \cup MutatingCalls
NumApiCalls(tr) == Cardinality({i \in 1..Len(tr) : tr[i] \in ApiCalls})
PickEvents == {"pick:None", "pick:Some", "pick:PickerError"}
NumPicks(tr) == Cardinality({i \in 1..Len(tr) : tr[i] \in PickEvents})

\* a command's outcome: what it did, what it returned, the remote state it left
Outcome(ev, res, run, ents) ==
    [ev |-> ev, res |-> res, running |-> run, entries |-> ents]

\* the k-th remote call of a command fails when the environment says so
\* fault = [at |-> k, kind |-> error]; at = 0: no call fails
Faults ==
    {[at |-> 0, kind |-> "NetworkError"]} \cup
    [at : 1..2, kind : {"NetworkError", "AuthError"}]
Fails(fault, k) == fault.at = k

\* what the user does at the Picker: cancels, selects the idx-th item, or the
\* picker mechanism itself fails
PickerAnswers ==
    [kind : {"None", "PickerError"}, idx : {1}] \cup
    [kind : {"Some"}, idx : 1..MaxEntries]

\* ------------------------------------------------ collaborators (spec 4.1-4.4, 6)

\* picker::get_picker(fzf): the external fuzzy finder or the built-in line UI
get_picker(fzf) == IF fzf THEN "fzf" ELSE "builtin"

\* Picker.pick(items): None at once on an empty list, else the user's answer
Pick(items, pk) ==
    IF items = <<>> THEN "None" ELSE pk.kind
PickEvent(answer) ==
    CASE answer = "None" -> "pick:None"
      [] answer = "Some" -> "pick:Some"
      [] OTHER -> "pick:PickerError"

\* V9ApiClient::from_credentials(credentials, proxy)
from_credentials(token, proxy) ==
    IF proxy = "badproxy" THEN "ClientBuildError" ELSE "Ok"

\* CredentialsStorage.read(): Credentials | NotFound | a storage-layer error
CredentialsStorage_read(st, io) ==
    IF io THEN "StorageError" ELSE IF st = NoValue THEN "NotFound" ELSE "Ok"

\* start_entry: the new entry becomes the running one, replacing any other
Started(e, ents) == Prefix(<<e>> \o ents, MaxEntries)

\* RunningTimeEntryCommand::execute(api_client)
RunningTimeEntryCommand(fault, run, ents) ==
    IF Fails(fault, 1)
    THEN Outcome(<<"get_running_entry">>, fault.kind, run, ents)
    ELSE Outcome(<<"get_running_entry",
                   IF run THEN "returned:Some" ELSE "returned:None",
                   "print:output">>, "Ok", run, ents)

\* StopCommand with a defect (C2): stop_entry is called without looking at
\* what is running
StopCommand_Blind(fault, run, ents) ==
    IF Fails(fault, 1)
    THEN Outcome(<<"get_running_entry">>, fault.kind, run, ents)
    ELSE LET seen == IF run THEN "returned:Some" ELSE "returned:None" IN
         IF Fails(fault, 2)
         THEN Outcome(<<"get_running_entry", seen, "stop_entry">>, fault.kind, run, ents)
         ELSE IF ~run
         THEN Outcome(<<"get_running_entry", seen, "stop_entry">>, "NotFound", run, ents)
         ELSE Outcome(<<"get_running_entry", seen, "stop_entry", "print:output">>,
                      "Ok", FALSE, ents)

\* StopCommand::execute(api_client, origin)
StopCommand(fault, run, ents) ==
    IF Fails(fault, 1)
    THEN Outcome(<<"get_running_entry">>, fault.kind, run, ents)
    ELSE IF ~run
    THEN Outcome(<<"get_running_entry", "returned:None", "print:output">>,
                 "Ok", run, ents)
    ELSE IF Fails(fault, 2)
    THEN Outcome(<<"get_running_entry", "returned:Some", "stop_entry">>,
                 fault.kind, run, ents)
    ELSE Outcome(<<"get_running_entry", "returned:Some", "stop_entry",
                   "print:output">>, "Ok", FALSE, ents)

\* ListCommand::execute(api_client, number)
ListCommand(fault, number, run, ents) ==
    IF Fails(fault, 1)
    THEN Outcome(<<"list_time_entries">>, fault.kind, run, ents)
    ELSE Outcome(<<"list_time_entries", "print:output">>, "Ok", run, ents)

\* StartCommand::execute(api_client, picker, description, project, billable,
\*                       interactive)
StartCommand(fault, pk, picker, description, project, billable, interactive, run, ents) ==
    LET insufficient == description = NoValue /\ project = NoValue
        entry(p) == [description |-> IF description = NoValue THEN "" ELSE description,
                     project |-> p]
        start(pre, k, p) ==
            IF Fails(fault, k)
            THEN Outcome(pre \o <<"start_entry">>, fault.kind, run, ents)
            ELSE Outcome(pre \o <<"start_entry", "print:output">>, "Ok",
                         TRUE, Started(entry(p), ents))
    IN  IF insufficient /\ ~interactive
        THEN Outcome(<<>>, "MissingArgument", run, ents)
        ELSE IF insufficient
        THEN IF Fails(fault, 1)
             THEN Outcome(<<"list_projects">>, fault.kind, run, ents)
             ELSE LET answer == Pick(<<"p1">>, pk)
                      pre == <<"list_projects", PickEvent(answer)>>
                  IN  CASE answer = "None" ->
                             Outcome(pre, "SelectionCancelled", run, ents)
                        [] answer = "PickerError" ->
                             Outcome(pre, "PickerError", run, ents)
                        [] OTHER -> start(pre, 2, "p1")
        ELSE start(<<>>, 1, project)

\* ContinueCommand::execute(api_client, picker)
ContinueCommand(fault, pk, picker, run, ents) ==
    LET restart(pre, e) ==
            IF Fails(fault, 2)
            THEN Outcome(pre \o <<"start_entry">>, fault.kind, run, ents)
            ELSE Outcome(pre \o <<"start_entry", "print:output">>, "Ok",
                         TRUE, Started(e, ents))
    IN  IF Fails(fault, 1)
        THEN Outcome(<<"list_time_entries">>, fault.kind, run, ents)
        ELSE IF picker = NoValue
        THEN IF ents = <<>>
             THEN Outcome(<<"list_time_entries">>, "NotFound", run, ents)
             ELSE restart(<<"list_time_entries">>, Head(ents))
        ELSE LET answer == Pick(ents, pk)
                 pre == <<"list_time_entries", PickEvent(answer)>>
                 i == IF pk.idx > Len(ents) THEN Len(ents) ELSE pk.idx
             IN  CASE answer = "None" ->
                        Outcome(pre, "SelectionCancelled", run, ents)
                   [] answer = "PickerError" ->
                        Outcome(pre, "PickerError", run, ents)
                   [] OTHER -> restart(pre, ents[i])

\* AuthenticationCommand::execute(out, api_client, storage): the token is
\* validated against the remote service, and written only when it is valid
AuthenticationCommand(fault, token, st) ==
    IF Fails(fault, 1)
    THEN [ev |-> <<"authenticate">>, res |-> fault.kind, store |-> st]
    ELSE IF token \notin ValidTokens
    THEN [ev |-> <<"authenticate">>, res |-> "AuthError", store |-> st]
    ELSE [ev |-> <<"authenticate", "store_write", "print:output">>,
          res |-> "Ok", store |-> token]

\* config::{init, active, manage}: local configuration files only
ConfigCommand(cmd) == <<"config">>

\* ---------------------------------------------------------------- main.rs

\* the subcommand part of CommandLineArguments; fields a subcommand does not
\* take hold their defaults
NoSub(cmd) ==
    [cmd |-> cmd, interactive |-> FALSE, billable |-> FALSE,
     description |-> NoValue, project |-> NoValue, number |-> 0,
     api_token |-> NoValue, cfg |-> NoValue]
Subcommands ==
    {NoSub(c) : c \in {"none", "stop", "current", "running"}}
    \cup {[NoSub("list") EXCEPT !.number = n] : n \in 1..MaxEntries}
    \cup {[NoSub("continue") EXCEPT !.interactive = i] : i \in BOOLEAN}
    \cup {[NoSub("start") EXCEPT !.interactive = i, !.billable = b,
                                 !.description = d, !.project = p] :
            i \in BOOLEAN, b \in BOOLEAN, d \in Descriptions, p \in ProjectArgs}
    \cup {[NoSub("auth") EXCEPT !.api_token = t] : t \in Tokens}
    \cup {[NoSub("config") EXCEPT !.cfg = c] : c \in {"init", "active", "manage"}}
CommandLineArguments ==
    {s @@ [proxy |-> p, fzf |-> z, directory |-> d] :
        s \in Subcommands, p \in Proxies, z \in BOOLEAN, d \in Directories}

NotExecuted == [cmd |-> NoValue, picker |-> NoValue]

\* get_storage(): the keyring entry is created, or the process panics
get_storage(keyring_ok) ==
    IF keyring_ok THEN "KeyringStorage" ELSE "panic"

\* get_api_client(proxy): read the stored credentials and build the client
\* from them; on any read error print the auth prompt and return the error
\* get_api_client with a defect (C7): the store is probed before it is read
get_api_client_Rereads(keyring_ok, io, st, proxy) ==
    IF get_storage(keyring_ok) = "panic"
    THEN [ev |-> <<"get_storage", "panic">>, res |-> "panic"]
    ELSE LET rd == CredentialsStorage_read(st, io) IN
         IF rd = "Ok"
         THEN [ev |-> <<"get_storage", "store_read", "read:Ok", "store_read",
                        "read:Ok", "from_credentials">>,
               res |-> from_credentials(st, proxy)]
         ELSE [ev |-> <<"get_storage", "store_read", "read:Err", "print:prompt">>,
               res |-> rd]

\* get_api_client with a defect (C10): the read error is returned without the prompt
get_api_client_NoPrompt(keyring_ok, io, st, proxy) ==
    IF get_storage(keyring_ok) = "panic"
    THEN [ev |-> <<"get_storage", "panic">>, res |-> "panic"]
    ELSE LET rd == CredentialsStorage_read(st, io) IN
         IF rd = "Ok"
         THEN [ev |-> <<"get_storage", "store_read", "read:Ok", "from_credentials">>,
               res |-> from_credentials(st, proxy)]
         ELSE [ev |-> <<"get_storage", "store_read", "read:Err">>, res |-> rd]

get_api_client(keyring_ok, io, st, proxy) ==
    IF get_storage(keyring_ok) = "panic"
    THEN [ev |-> <<"get_storage", "panic">>, res |-> "panic"]
    ELSE LET rd == CredentialsStorage_read(st, io) IN
         IF rd = "Ok"
         THEN [ev |-> <<"get_storage", "store_read", "read:Ok", "from_credentials">>,
               res |-> from_credentials(st, proxy)]
         ELSE [ev |-> <<"get_storage", "store_read", "read:Err", "print:prompt">>,
               res |-> rd]

\* CheckDirectory with a defect (C6): the is_dir check is left out, and
\* set_current_dir fails instead
CheckDirectory_NoIsDir(directory) ==
    CASE directory = NoValue -> "NoDirectory"
      [] directory = "missing" -> "DirectoryNotFound"
      [] directory \in {"file", "dir_denied"} -> "IoError"
      [] OTHER -> "Ok"

\* the --directory checks of execute_subcommand
CheckDirectory(directory) ==
    CASE directory = NoValue -> "NoDirectory"
      [] directory = "missing" -> "DirectoryNotFound"
      [] directory = "file" -> "NotADirectory"
      [] directory = "dir_denied" -> "IoError"
      [] OTHER -> "Ok"

\* ContinuePicker with a defect (C9): the picker is handed over whatever
\* `interactive` says
ContinuePicker_Always(interactive, picker) == picker

\* `let picker = if interactive { Some(picker) } else { None }`
ContinuePicker(interactive, picker) ==
    IF interactive THEN picker ELSE NoValue

\* what main does with the result of execute_subcommand
MainPrints(res) == IF res = "Ok" THEN <<>> ELSE <<"print:error">>
MainExitCode(res) == 0

Init ==
    /\ pc = "shell"
    /\ args = NoSub("none") @@ [proxy |-> NoValue, fzf |-> FALSE, directory |-> NoValue]
    /\ store = NoValue
    /\ running = FALSE
    /\ entries = <<>>
    /\ trace = <<>>
    /\ executed = NotExecuted
    /\ result = "Pending"
    /\ exitCode = -1
    /\ cwd = "home"
    /\ store0 = NoValue
    /\ running0 = FALSE
    /\ entries0 = <<>>

\* a process is started: CommandLineArguments::from_args()
main_from_args ==
    /\ pc = "shell"
    /\ args' \in CommandLineArguments
    /\ pc' = "main"
    /\ UNCHANGED <<store, running, entries, trace, executed, result, exitCode,
                   cwd, store0, running0, entries0>>

\* execute_subcommand up to the match: the picker is built, --directory is
\* checked and entered
execute_subcommand_directory ==
    /\ pc = "main"
    /\ LET chk == CheckDirectory(args.directory) IN
         CASE chk = "NoDirectory" ->
                /\ trace' = trace \o <<"get_picker">>
                /\ pc' = "match"
                /\ UNCHANGED <<result, cwd>>
           [] chk = "Ok" ->
                /\ trace' = trace \o <<"get_picker", "chdir">>
                /\ cwd' = args.directory
                /\ pc' = "match"
                /\ UNCHANGED result
           [] OTHER ->
                /\ trace' = trace \o <<"get_picker">>
                /\ result' = chk
                /\ pc' = "ret"
                /\ UNCHANGED cwd
    /\ UNCHANGED <<args, store, running, entries, executed, exitCode,
                   store0, running0, entries0>>

\* a match arm returns (or `?` returns for it)
Finish(ev, ex, res, run, ents, st) ==
    /\ trace' = trace \o ev
    /\ executed' = ex
    /\ result' = res
    /\ running' = run
    /\ entries' = ents
    /\ store' = st
    /\ pc' = "ret"
    /\ UNCHANGED <<args, exitCode, cwd, store0, running0, entries0>>

\* the process dies of a panic
Panicked(ev) ==
    /\ trace' = trace \o ev
    /\ pc' = "exited"
    /\ exitCode' = PanicExitCode
    /\ UNCHANGED <<args, store, running, entries, executed, result, cwd,
                   store0, running0, entries0>>

\* `Command::execute(get_default_api_client()?, ...).await?`:
\* c is what get_api_client returned, o the command's outcome
Dispatch(c, ex, o) ==
    IF c.res = "panic" THEN Panicked(c.ev)
    ELSE IF c.res # "Ok" THEN Finish(c.ev, executed, c.res, running, entries, store)
    ELSE Finish(c.ev \o <<"exec">> \o o.ev, ex, o.res, o.running, o.entries, store)

arm_None ==
    /\ pc = "match" /\ args.cmd = "none"
    /\ \E keyring_ok \in BOOLEAN, io \in BOOLEAN, fault \in Faults :
         Dispatch(get_api_client(keyring_ok, io, store, args.proxy),
                  [cmd |-> "RunningTimeEntryCommand", picker |-> NoValue],
                  RunningTimeEntryCommand(fault, running, entries))

arm_Stop ==
    /\ pc = "match" /\ args.cmd = "stop"
    /\ \E keyring_ok \in BOOLEAN, io \in BOOLEAN, fault \in Faults :
         Dispatch(get_api_client(keyring_ok, io, store, args.proxy),
                  [cmd |-> "StopCommand", picker |-> NoValue],
                  StopCommand(fault, running, entries))

arm_Continue ==
    /\ pc = "match" /\ args.cmd = "continue"
    /\ \E keyring_ok \in BOOLEAN, io \in BOOLEAN, fault \in Faults,
          pk \in PickerAnswers :
         LET picker == ContinuePicker(args.interactive, get_picker(args.fzf)) IN
         Dispatch(get_api_client(keyring_ok, io, store, args.proxy),
                  [cmd |-> "ContinueCommand", picker |-> picker],
                  ContinueCommand(fault, pk, picker, running, entries))

arm_List ==
    /\ pc = "match" /\ args.cmd = "list"
    /\ \E keyring_ok \in BOOLEAN, io \in BOOLEAN, fault \in Faults :
         Dispatch(get_api_client(keyring_ok, io, store, args.proxy),
                  [cmd |-> "ListCommand", picker |-> NoValue],
                  ListCommand(fault, args.number, running, entries))

arm_CurrentRunning ==
    /\ pc = "match" /\ args.cmd \in {"current", "running"}
    /\ \E keyring_ok \in BOOLEAN, io \in BOOLEAN, fault \in Faults :
         Dispatch(get_api_client(keyring_ok, io, store, args.proxy),
                  [cmd |-> "RunningTimeEntryCommand", picker |-> NoValue],
                  RunningTimeEntryCommand(fault, running, entries))

\* the Start arm with a defect (C3): the two boolean arguments of
\* StartCommand::execute change places
arm_Start_Swapped ==
    /\ pc = "match" /\ args.cmd = "start"
    /\ \E keyring_ok \in BOOLEAN, io \in BOOLEAN, fault \in Faults,
          pk \in PickerAnswers :
         Dispatch(get_api_client(keyring_ok, io, store, args.proxy),
                  [cmd |-> "StartCommand", picker |-> get_picker(args.fzf)],
                  StartCommand(fault, pk, get_picker(args.fzf), args.description,
                               args.project, args.interactive, args.billable,
                               running, entries))

arm_Start ==
    /\ pc = "match" /\ args.cmd = "start"
    /\ \E keyring_ok \in BOOLEAN, io \in BOOLEAN, fault \in Faults,
          pk \in PickerAnswers :
         Dispatch(get_api_client(keyring_ok, io, store, args.proxy),
                  [cmd |-> "StartCommand", picker |-> get_picker(args.fzf)],
                  StartCommand(fault, pk, get_picker(args.fzf), args.description,
                               args.project, args.billable, args.interactive,
                               running, entries))

\* the Auth arm with a defect (C4): main stores the credentials itself before
\* they are validated
arm_Auth_PersistFirst ==
    /\ pc = "match" /\ args.cmd = "auth"
    /\ \E keyring_ok \in BOOLEAN, fault \in Faults :
         IF get_storage(keyring_ok) = "panic"
         THEN Panicked(<<"get_storage", "panic">>)
         ELSE LET built == from_credentials(args.api_token, args.proxy) IN
              IF built # "Ok"
              THEN Finish(<<"get_storage", "store_write", "from_credentials">>,
                          executed, built, running, entries, args.api_token)
              ELSE LET o == AuthenticationCommand(fault, args.api_token, args.api_token) IN
                   Finish(<<"get_storage", "store_write", "from_credentials", "exec">>
                              \o o.ev,
                          [cmd |-> "AuthenticationCommand", picker |-> NoValue],
                          o.res, running, entries, o.store)

\* Auth: the client is built from the token given, not from the store
arm_Auth ==
    /\ pc = "match" /\ args.cmd = "auth"
    /\ \E keyring_ok \in BOOLEAN, fault \in Faults :
         LET built == from_credentials(args.api_token, args.proxy) IN
         IF built # "Ok"
         THEN Finish(<<"from_credentials">>, executed, built, running, entries, store)
         ELSE IF get_storage(keyring_ok) = "panic"
         THEN Panicked(<<"from_credentials", "get_storage", "panic">>)
         ELSE LET o == AuthenticationCommand(fault, args.api_token, store) IN
              Finish(<<"from_credentials", "get_storage", "exec">> \o o.ev,
                     [cmd |-> "AuthenticationCommand", picker |-> NoValue],
                     o.res, running, entries, o.store)

arm_Config ==
    /\ pc = "match" /\ args.cmd = "config"
    /\ Finish(<<"exec">> \o ConfigCommand(args.cfg),
              [cmd |-> "ConfigCommand", picker |-> NoValue],
              "Ok", running, entries, store)

\* main: an error is printed, and the process returns Ok(()) either way
main_result ==
    /\ pc = "ret"
    /\ trace' = trace \o MainPrints(result)
    /\ exitCode' = MainExitCode(result)
    /\ pc' = "exited"
    /\ UNCHANGED <<args, store, running, entries, executed, result, cwd,
                   store0, running0, entries0>>

\* the process is gone: nothing of it is left but the Credential Store and the
\* remote state
process_exit ==
    /\ pc = "exited"
    /\ pc' = "shell"
    /\ args' = NoSub("none") @@ [proxy |-> NoValue, fzf |-> FALSE, directory |-> NoValue]
    /\ trace' = <<>>
    /\ executed' = NotExecuted
    /\ result' = "Pending"
    /\ exitCode' = -1
    /\ cwd' = "home"
    /\ store0' = store
    /\ running0' = running
    /\ entries0' = entries
    /\ UNCHANGED <<store, running, entries>>

Next ==
    \/ main_from_args
    \/ process_exit
    \/ execute_subcommand_directory
    \/ arm_None
    \/ arm_Stop
    \/ arm_Continue
    \/ arm_List
    \/ arm_CurrentRunning
    \/ arm_Start
    \/ arm_Auth
    \/ arm_Config
    \/ main_result

Spec == Init /\ [][Next]_vars

TypeOK ==
    /\ pc \in {"shell", "main", "match", "ret", "exited"}
    /\ args \in CommandLineArguments
    /\ store \in {NoValue} \cup Tokens
    /\ running \in BOOLEAN
    /\ Len(entries) <= MaxEntries
    /\ \A i \in 1..Len(entries) : entries[i] \in Entries
    /\ running => entries # <<>>
    /\ exitCode \in {-1, 0, PanicExitCode}

\* ---------------------------------------------------------------- claims

Exited == pc = "exited"
Returned == pc \in {"ret", "exited"}
RemoteCommands == {"none", "stop", "continue", "list", "current", "running", "start"}
RemoteUnchanged == running = running0 /\ entries = entries0
\* every event of the trace that a match arm produces
ArmEvents ==
    ApiCalls \cup PickEvents \cup
    {"get_storage", "store_read", "store_write", "from_credentials", "exec", "config"}
BareStart ==
    /\ args.cmd = "start"
    /\ ~args.interactive
    /\ args.description = NoValue
    /\ args.project = NoValue

\* C1: every invocation, whatever fails inside it, ends with the success exit
\* status; failures show as printed text only.
C1_AlwaysExitsSuccess ==
    Exited => exitCode = 0

\* C2: Stop while the remote state is Idle (get_running_entry returns no
\* entry) issues no mutating call, reports no error and leaves the state Idle.
C2_StopWhenIdle ==
    (Returned /\ executed.cmd = "StopCommand" /\ Has(trace, "returned:None")) =>
        /\ ~Has(trace, "stop_entry")
        /\ ~Has(trace, "start_entry")
        /\ result = "Ok"
        /\ ~Has(trace, "print:error")
        /\ ~running
        /\ RemoteUnchanged
C2_Witness ==
    /\ Exited
    /\ executed.cmd = "StopCommand"
    /\ Has(trace, "returned:None")
    /\ entries0 # <<>>

\* C3 as stated: Start with interactive unset and neither description nor
\* project fails with MissingArgument, with no API Client operation issued,
\* the Picker not invoked and the remote state unchanged.  Stated for the
\* invocations most favourable to it: no --directory, and no panic (C1).
C3_Original ==
    (Exited /\ BareStart /\ args.directory = NoValue /\ ~Has(trace, "panic")) =>
        /\ result = "MissingArgument"
        /\ NumApiCalls(trace) = 0
        /\ NumPicks(trace) = 0
        /\ RemoteUnchanged

\* C3 amended: Start with interactive unset and neither description nor
\* project issues no API Client operation, never invokes the Picker and leaves
\* the remote state unchanged; it fails with MissingArgument whenever
\* StartCommand is reached, and is reached exactly when --directory was
\* accepted and the API client was built from the stored credentials.
C3_BareStartFailsFast ==
    (Returned /\ BareStart) =>
        /\ NumApiCalls(trace) = 0
        /\ NumPicks(trace) = 0
        /\ RemoteUnchanged
        /\ result # "Ok"
        /\ executed.cmd = "StartCommand" => result = "MissingArgument"
        /\ executed.cmd = "StartCommand" <=>
               /\ args.directory \in {NoValue, "dir"}
               /\ Has(trace, "read:Ok")
               /\ args.proxy # "badproxy"
C3_Witness ==
    /\ Exited
    /\ BareStart
    /\ args.billable
    /\ executed.cmd = "StartCommand"
    /\ result = "MissingArgument"
    /\ running0

\* C4: Auth writes the Credential Store only after the token was validated
\* against the remote service; when validation fails or the client cannot be
\* built the store holds what it held before.
C4_AuthValidatesBeforeWrite ==
    /\ Has(trace, "store_write") =>
          /\ args.cmd = "auth"
          /\ args.api_token \in ValidTokens
          /\ Has(trace, "authenticate")
          /\ Index(trace, "authenticate") < Index(trace, "store_write")
    /\ (args.cmd = "auth" /\ pc # "shell") =>
          /\ store \in {store0, args.api_token}
          /\ store # store0 => Has(trace, "store_write")
    /\ (args.cmd = "auth" /\ Returned /\ result # "Ok") =>
          /\ store = store0
          /\ ~Has(trace, "store_write")
C4_Witness ==
    /\ Exited
    /\ args.cmd = "auth"
    /\ args.api_token = "tokBad"
    /\ Has(trace, "authenticate")
    /\ result = "AuthError"
    /\ store0 = "tokA"
    /\ store = "tokA"

\* C5: Start with interactive set whose Picker returns None ends with
\* SelectionCancelled, calls start_entry zero times, and nothing is printed
\* as an error at the top level.
C5_CancelIsSilent ==
    (Exited /\ executed.cmd = "StartCommand" /\ args.interactive
            /\ Has(trace, "pick:None")) =>
        /\ result = "SelectionCancelled"
        /\ ~Has(trace, "start_entry")
        /\ ~Has(trace, "print:error")

\* C6: with --directory the working directory is changed before anything of
\* the subcommand runs; a path that does not exist fails with
\* DirectoryNotFound, one that is no directory with NotADirectory, and then
\* no subcommand runs, the Credential Store is not read, no remote call is made.
C6_DirectoryFirst ==
    /\ args.directory # NoValue =>
          \A i \in 1..Len(trace) :
              trace[i] \in ArmEvents =>
                  /\ cwd = args.directory
                  /\ \E j \in 1..(i-1) : trace[j] = "chdir"
    /\ (Returned /\ args.directory \in {"missing", "file"}) =>
          /\ result = IF args.directory = "missing"
                       THEN "DirectoryNotFound" ELSE "NotADirectory"
          /\ executed = NotExecuted
          /\ \A i \in 1..Len(trace) : trace[i] \notin ArmEvents
          /\ cwd = "home"
          /\ store = store0
          /\ RemoteUnchanged
C6_Witness ==
    /\ Exited
    /\ args.directory = "file"
    /\ args.cmd = "start"
    /\ result = "NotADirectory"
    /\ store0 # NoValue

\* C7: only Auth writes the Credential Store; any other invocation leaves
\* its content as it was and reads it at most once.
C7_StoreWrittenOnlyByAuth ==
    /\ Has(trace, "store_write") => executed.cmd = "AuthenticationCommand"
    /\ (args.cmd # "auth" /\ pc # "shell") =>
          /\ store = store0
          /\ ~Has(trace, "store_write")
          /\ Count(trace, "store_read") <= 1
C7_Witness ==
    /\ Exited
    /\ args.cmd = "continue"
    /\ result = "Ok"
    /\ store0 = "tokB"
    /\ Count(trace, "store_read") = 1

\* C8: the 'set your API token' prompt is the result of absent credentials
\* (NotFound), not of a storage-layer error.
C8_PromptOnlyWhenAbsent ==
    (Returned /\ Has(trace, "print:prompt")) =>
        /\ result = "NotFound"
        /\ store0 = NoValue

\* C9: Continue gets a Picker only when interactive is set, and then the one
\* --fzf selects; with interactive unset no Picker is invoked and the most
\* recent entry is the one started again.
C9_ContinuePickerOnlyInteractive ==
    executed.cmd = "ContinueCommand" =>
        /\ args.interactive =>
              executed.picker = IF args.fzf THEN "fzf" ELSE "builtin"
        /\ ~args.interactive =>
              /\ executed.picker = NoValue
              /\ NumPicks(trace) = 0
              /\ result = "Ok" =>
                    /\ entries0 # <<>>
                    /\ running
                    /\ Head(entries) = Head(entries0)
C9_Witness ==
    /\ Exited
    /\ executed.cmd = "ContinueCommand"
    /\ ~args.interactive
    /\ args.fzf
    /\ result = "Ok"
    /\ Len(entries0) = MaxEntries
    /\ entries0[1] # entries0[2]

\* C10: when a command that needs remote access fails to read the Credential
\* Store, the auth prompt is printed, the command is not executed and no
\* remote call is made; Auth and Config never read the store.
C10_ReadFailurePrompts ==
    /\ Has(trace, "read:Err") =>
          /\ args.cmd \in RemoteCommands
          /\ Has(trace, "print:prompt")
          /\ executed = NotExecuted
          /\ ~Has(trace, "exec")
          /\ NumApiCalls(trace) = 0
          /\ RemoteUnchanged
    /\ (Returned /\ args.cmd \in RemoteCommands /\ Has(trace, "store_read")
           /\ result \in {"NotFound", "StorageError"} /\ executed = NotExecuted) =>
          Has(trace, "read:Err")
    /\ (args.cmd \in {"auth", "config"} /\ pc # "shell") =>
          /\ ~Has(trace, "store_read")
          /\ ~Has(trace, "print:prompt")
    /\ (Returned /\ args.cmd = "config" /\ args.directory \in {NoValue, "dir"}) =>
          executed.cmd = "ConfigCommand"
    /\ (Returned /\ args.cmd = "auth" /\ args.directory \in {NoValue, "dir"}
           /\ args.proxy # "badproxy" /\ ~Has(trace, "panic")) =>
          /\ executed.cmd = "AuthenticationCommand"
          /\ result \notin {"NotFound", "StorageError"}
C10_Witness ==
    /\ Exited
    /\ args.cmd = "list"
    /\ store0 = NoValue
    /\ Has(trace, "read:Err")
    /\ Has(trace, "print:prompt")
    /\ result = "NotFound"

====
